---- MODULE Spec2Model ----
(***************************************************************************)
(* Model of src/blurred.py: analyze_images_blurriness walks a directory    *)
(* tree; for each directory it submits one is_blurry evaluation per        *)
(* matching file to a ThreadPoolExecutor(max_workers=8), collects the      *)
(* futures in submission order, sorts the results and writes a CSV.        *)
(*                                                                         *)
(* A directory is the sequence of its files in discovery order; a file is  *)
(* named by its position in that sequence and its full path is the pair    *)
(* <<directory, name>>.  A file's content is either Corrupt (cv2.imread    *)
(* returns None for it) or the Laplacian variance cv2 computes for it.     *)
(* Variances are integers around the threshold standing for the float64   *)
(* values; the run is the one __main__ starts, with threshold=100.0.       *)
(***************************************************************************)
EXTENDS Integers, Sequences, FiniteSets, TLC

\* ---- bounds of the model -------------------------------------------------
\* directories in the tree, files in the whole tree, files of the big directory
NumDirs == 2
MaxFiles == 3
PoolFiles == 9

\* ---- program constants ---------------------------------------------------
max_workers == 8

threshold == 100

file_types == {".jpg", ".jpeg", ".png", ".tiff", ".NEF"}

\* ---- the inputs ----------------------------------------------------------
Corrupt == -1

\* Laplacian variances below, at and above the threshold
Variances == {threshold - 1, threshold, threshold + 1}

Contents == {Corrupt} \cup Variances

\* a file that is no image carries no decodable content
FileKinds ==
    {[ext |-> ".txt", content |-> Corrupt]}
        \cup {[ext |-> ".jpg", content |-> c] : c \in Contents}

\* the files of a tree, listed directory by directory in discovery order
Listings ==
    {l \in UNION {[1..n -> (1..NumDirs) \X FileKinds] : n \in 0..MaxFiles} :
        \A a, b \in 1..Len(l) : a < b => l[a][1] <= l[b][1]}

RECURSIVE files_of(_, _, _)
files_of(l, k, n) ==
    IF n > Len(l) THEN <<>>
    ELSE IF l[n][1] = k
         THEN <<l[n][2]>> \o files_of(l, k, n + 1)
         ELSE files_of(l, k, n + 1)

\* one directory with more images than the pool has workers
BigDir ==
    [n \in 1..PoolFiles |->
        [ext |-> ".jpg", content |-> IF n % 2 = 0 THEN threshold ELSE threshold - 1]]

VARIABLES
    fs,             \* the directories below dir_path, in os.walk order
    rootReadable,   \* whether os.scandir(dir_path) succeeds
    sort,           \* parameter sort
    export_to_csv,  \* parameter export_to_csv
    pc,             \* position of the main thread
    exc,            \* the exception propagating in the main thread, or "none"
    d,              \* index in the walk of the directory being processed
    futures,        \* futures[k][t]: state of the t-th evaluation of directory k
    i,              \* index of the next future of the collecting loop
    results,        \* the list results of the current directory
    csv,            \* csv[k]: the data rows of the CSV file of directory k
    wr              \* wr[k]: "none", "ok" (to_csv returned) or "failed" (to_csv raised)

vars == <<fs, rootReadable, sort, export_to_csv, pc, exc, d,
          futures, i, results, csv, wr>>

params == <<fs, rootReadable, sort, export_to_csv>>

\* ---- helpers -------------------------------------------------------------
\* os.walk(dir_path): errors of scandir are ignored (onerror=None), so an
\* unreadable root yields no directory at all
walk == IF rootReadable THEN fs ELSE <<>>

RECURSIVE select_images(_, _, _)
\* [os.path.join(root, file) for file in files if splitext(file)[1] in file_types]
select_images(k, files, n) ==
    IF n > Len(files) THEN <<>>
    ELSE IF files[n].ext \in file_types
         THEN <<(<<k, n>>)>> \o select_images(k, files, n + 1)
         ELSE select_images(k, files, n + 1)

images(k) == select_images(k, fs[k], 1)

content(path) == fs[path[1]][path[2]].content

basename(path) == path[2]

is_blurry_le(c, th) == IF c <= th THEN <<TRUE, c>> ELSE <<FALSE, c>>

\* is_blurry on a decodable image whose Laplacian variance is c
is_blurry(c, th) == IF c < th THEN <<TRUE, c>> ELSE <<FALSE, c>>

\* the state an evaluation ends in: cv2.Laplacian raises on imread's None
evaluated(c) == IF c = Corrupt THEN "exc" ELSE "ok"

future_done_nowait(k, t) == futures[k][t] # "new"

\* a future whose result is available (future.result() returns or raises)
future_done(k, t) == futures[k][t] \in {"ok", "exc"}

insert_before_equal(s, r) ==
    LET p == Cardinality({j \in 1..Len(s) : s[j][4] < r[4]})
    IN  SubSeq(s, 1, p) \o <<r>> \o SubSeq(s, p + 1, Len(s))

\* insertion of r in the sorted s after every row whose key is <= r's key
insert(s, r) ==
    LET p == Cardinality({j \in 1..Len(s) : s[j][4] <= r[4]})
    IN  SubSeq(s, 1, p) \o <<r>> \o SubSeq(s, p + 1, Len(s))

RECURSIVE sort_by_variance(_)
\* results.sort(key=lambda x: x[3], reverse=False): a stable ascending sort
sort_by_variance(s) ==
    IF s = <<>> THEN <<>>
    ELSE insert(sort_by_variance(SubSeq(s, 1, Len(s) - 1)), s[Len(s)])

should_export_always(res) == export_to_csv

\* if export_to_csv and results:
should_export(res) == export_to_csv /\ res # <<>>

\* the evaluations that are executing in a worker thread, over all executors
running ==
    {p \in UNION {{<<k, t>> : t \in 1..Len(futures[k])} : k \in 1..Len(fs)} :
        futures[p[1]][p[2]] = "running"}

\* ---- initial states ------------------------------------------------------
InitRun ==
    /\ pc = "walk"
    /\ exc = "none"
    /\ d = 0
    /\ futures = [k \in 1..Len(fs) |-> [t \in 1..Len(images(k)) |-> "new"]]
    /\ i = 0
    /\ results = <<>>
    /\ csv = [k \in 1..Len(fs) |-> <<>>]
    /\ wr = [k \in 1..Len(fs) |-> "none"]

InitSmall ==
    /\ \E l \in Listings : fs = [k \in 1..NumDirs |-> files_of(l, k, 1)]
    /\ rootReadable \in BOOLEAN
    /\ sort \in BOOLEAN
    /\ export_to_csv \in BOOLEAN

InitPool ==
    /\ fs = [k \in 1..NumDirs |-> IF k = 1 THEN BigDir ELSE <<>>]
    /\ rootReadable = TRUE
    /\ sort = TRUE
    /\ export_to_csv = TRUE

Init == (InitSmall \/ InitPool) /\ InitRun

\* ---- the main thread -----------------------------------------------------
WalkNextKeepResults ==
    /\ pc = "walk"
    /\ d < Len(walk)
    /\ d' = d + 1
    /\ i' = 1
    /\ pc' = "submit"
    /\ UNCHANGED <<params, exc, futures, results, csv, wr>>

\* for root, dirs, files in os.walk(dir_path): results = []; images = [...];
\* ThreadPoolExecutor(max_workers=8) is entered
WalkNext ==
    /\ pc = "walk"
    /\ d < Len(walk)
    /\ d' = d + 1
    /\ results' = <<>>
    /\ i' = 1
    /\ pc' = "submit"
    /\ UNCHANGED <<params, exc, futures, csv, wr>>

\* os.walk is exhausted: analyze_images_blurriness returns
WalkEnd ==
    /\ pc = "walk"
    /\ d = Len(walk)
    /\ pc' = "done"
    /\ UNCHANGED <<params, exc, d, futures, i, results, csv, wr>>

\* executor.submit(is_blurry, img, threshold) for the next image
Submit ==
    /\ pc = "submit"
    /\ \E t \in 1..Len(futures[d]) :
          /\ futures[d][t] = "new"
          /\ \A u \in 1..(t - 1) : futures[d][u] # "new"
          /\ futures' = [futures EXCEPT ![d][t] = "pending"]
    /\ UNCHANGED <<params, pc, exc, d, i, results, csv, wr>>

\* the dict comprehension is complete: the loop over futures begins
SubmitEnd ==
    /\ pc = "submit"
    /\ \A t \in 1..Len(futures[d]) : futures[d][t] # "new"
    /\ pc' = "collect"
    /\ UNCHANGED <<params, exc, d, futures, i, results, csv, wr>>

\* blurry, laplacian = future.result(); results.append(...)
Collect ==
    /\ pc = "collect"
    /\ i <= Len(futures[d])
    /\ future_done(d, i)
    /\ LET image_path == images(d)[i]
           r == is_blurry(content(image_path), threshold)
       IN  IF futures[d][i] = "exc"
           THEN /\ exc' = "cv2.error"
                /\ pc' = "exit"
                /\ UNCHANGED <<i, results>>
           ELSE /\ results' = Append(results,
                                 <<image_path, basename(image_path), r[1], r[2]>>)
                /\ i' = i + 1
                /\ UNCHANGED <<pc, exc>>
    /\ UNCHANGED <<params, d, futures, csv, wr>>

\* the loop over futures is exhausted: the with block is left
CollectEnd ==
    /\ pc = "collect"
    /\ i > Len(futures[d])
    /\ pc' = "exit"
    /\ UNCHANGED <<params, exc, d, futures, i, results, csv, wr>>

\* executor.__exit__: shutdown(wait=True) joins the workers, then the pending
\* exception (if any) leaves analyze_images_blurriness, else the code goes on
ExecutorExit ==
    /\ pc = "exit"
    /\ \A t \in 1..Len(futures[d]) : future_done(d, t)
    /\ pc' = IF exc = "none" THEN "sort" ELSE "error"
    /\ UNCHANGED <<params, exc, d, futures, i, results, csv, wr>>

\* if sort: results.sort(...); if export_to_csv and results: to_csv(results, root)
SortResults ==
    /\ pc = "sort"
    /\ results' = IF sort THEN sort_by_variance(results) ELSE results
    /\ pc' = IF should_export(results) THEN "to_csv" ELSE "walk"
    /\ UNCHANGED <<params, exc, d, futures, i, csv, wr>>

\* to_csv writes the header and all rows and returns
ToCsvOk ==
    /\ pc = "to_csv"
    /\ csv' = [csv EXCEPT ![d] = results]
    /\ wr' = [wr EXCEPT ![d] = "ok"]
    /\ pc' = "walk"
    /\ UNCHANGED <<params, exc, d, futures, i, results>>

\* open() or a write raises OSError: the file is absent or holds n of the rows
ToCsvFail ==
    /\ pc = "to_csv"
    /\ \E n \in 0..Len(results) : csv' = [csv EXCEPT ![d] = SubSeq(results, 1, n)]
    /\ wr' = [wr EXCEPT ![d] = "failed"]
    /\ exc' = "OSError"
    /\ pc' = "error"
    /\ UNCHANGED <<params, d, futures, i, results>>

\* ---- the worker threads --------------------------------------------------
WorkerStartUnbounded(k) ==
    /\ \E t \in 1..Len(futures[k]) :
          /\ futures[k][t] = "pending"
          /\ \A u \in 1..(t - 1) : futures[k][u] # "pending"
          /\ futures' = [futures EXCEPT ![k][t] = "running"]
    /\ UNCHANGED <<params, pc, exc, d, i, results, csv, wr>>

\* a worker of the executor of directory k takes the oldest queued work item;
\* the executor never has more than max_workers threads
WorkerStart(k) ==
    /\ Cardinality({t \in 1..Len(futures[k]) : futures[k][t] = "running"}) < max_workers
    /\ \E t \in 1..Len(futures[k]) :
          /\ futures[k][t] = "pending"
          /\ \A u \in 1..(t - 1) : futures[k][u] # "pending"
          /\ futures' = [futures EXCEPT ![k][t] = "running"]
    /\ UNCHANGED <<params, pc, exc, d, i, results, csv, wr>>

\* is_blurry returns or raises in its worker: the future is set
WorkerFinish(k) ==
    /\ \E t \in 1..Len(futures[k]) :
          /\ futures[k][t] = "running"
          /\ futures' = [futures EXCEPT ![k][t] = evaluated(content(images(k)[t]))]
    /\ UNCHANGED <<params, pc, exc, d, i, results, csv, wr>>

Workers == \E k \in 1..Len(fs) : WorkerStart(k) \/ WorkerFinish(k)

Next ==
    \/ WalkNext
    \/ WalkEnd
    \/ Submit
    \/ SubmitEnd
    \/ Collect
    \/ CollectEnd
    \/ ExecutorExit
    \/ SortResults
    \/ ToCsvOk
    \/ ToCsvFail
    \/ Workers

Spec == Init /\ [][Next]_vars

\* ---- vocabulary of the properties ----------------------------------------
terminated == pc \in {"done", "error"}

Dirs == 1..Len(fs)

RECURSIVE decodable(_, _)
\* the images of a sequence of paths that cv2 can decode, in discovery order
decodable(paths, n) ==
    IF n > Len(paths) THEN <<>>
    ELSE IF content(paths[n]) # Corrupt
         THEN <<paths[n]>> \o decodable(paths, n + 1)
         ELSE decodable(paths, n + 1)

good_images(k) == decodable(images(k), 1)

has_corrupt(k) == Len(good_images(k)) < Len(images(k))

all_finished(k) == \A t \in 1..Len(futures[k]) : futures[k][t] \in {"ok", "exc"}

in_flight(k) == \E t \in 1..Len(futures[k]) : futures[k][t] \in {"pending", "running"}

\* ---- C1 ------------------------------------------------------------------
\* C1: when the evaluation of an image fails the run is not aborted: once the
\* run has ended (and no CSV write failed), every directory that has at least
\* one decodable image has its CSV, with exactly the records of its decodable
\* images, including the directory of the failed image and every later one.
C1_FailedImageDoesNotAbort ==
    (/\ terminated
     /\ rootReadable
     /\ export_to_csv
     /\ exc # "OSError"
     /\ \E k \in Dirs : has_corrupt(k))
        => \A k \in Dirs :
              good_images(k) # <<>> =>
                  /\ wr[k] = "ok"
                  /\ Len(csv[k]) = Len(good_images(k))

\* ---- C2 ------------------------------------------------------------------
\* C2: when the root directory cannot be read, the run ends in an error
\* outcome instead of completing normally, and no CSV is written anywhere.
C2_UnreadableRootFails ==
    (~rootReadable /\ terminated)
        => /\ pc = "error"
           /\ \A k \in Dirs : wr[k] = "none"

\* ---- C3 ------------------------------------------------------------------
\* C3: when the CSV write of a directory fails the run is not aborted: once
\* the run has ended (every image being decodable), every directory with a
\* matching image has been evaluated and its CSV has been attempted.
C3_WriteFailureDoesNotAbort ==
    (/\ terminated
     /\ rootReadable
     /\ export_to_csv
     /\ \A k \in Dirs : ~has_corrupt(k)
     /\ \E k \in Dirs : wr[k] = "failed")
        => \A k \in Dirs :
              images(k) # <<>> => (all_finished(k) /\ wr[k] # "none")

\* ---- C4 ------------------------------------------------------------------
\* C4: with sorting enabled, the rows of every CSV are in non-decreasing order
\* of variance, and rows of equal variance are in discovery order, whatever
\* the order in which the evaluations completed.
C4_SortedStable ==
    sort => \A k \in Dirs : \A a, b \in 1..Len(csv[k]) :
                a < b =>
                    \/ csv[k][a][4] < csv[k][b][4]
                    \/ /\ csv[k][a][4] = csv[k][b][4]
                       /\ csv[k][a][2] < csv[k][b][2]

\* a written CSV where the sort moved a row and where two rows tie
C4_Witness ==
    /\ sort
    /\ \E k \in Dirs :
          /\ wr[k] = "ok"
          /\ \E a, b \in 1..Len(csv[k]) : a < b /\ csv[k][a][2] > csv[k][b][2]
          /\ \E a, b \in 1..Len(csv[k]) : a < b /\ csv[k][a][4] = csv[k][b][4]

\* ---- C5 ------------------------------------------------------------------
\* C5: every collected record and every CSV row has is_blurry = (variance <
\* threshold); a variance equal to the threshold is not blurry.
C5_BlurryIffBelowThreshold ==
    /\ \A j \in 1..Len(results) : results[j][3] = (results[j][4] < threshold)
    /\ \A k \in Dirs : \A j \in 1..Len(csv[k]) :
          csv[k][j][3] = (csv[k][j][4] < threshold)

\* a CSV holds a row whose variance equals the threshold, and one below it
C5_Witness ==
    \E k \in Dirs :
        /\ wr[k] = "ok"
        /\ \E j \in 1..Len(csv[k]) : csv[k][j][4] = threshold /\ ~csv[k][j][3]
        /\ \E j \in 1..Len(csv[k]) : csv[k][j][4] < threshold /\ csv[k][j][3]

\* ---- C6 ------------------------------------------------------------------
\* C6: a written CSV has exactly one row per successfully evaluated matching
\* image of its own directory: as many rows as such images, each such image
\* in exactly one row, and no row of another file.
C6_OneRowPerEvaluatedImage ==
    \A k \in Dirs :
        wr[k] = "ok" =>
            /\ Len(csv[k]) = Len(good_images(k))
            /\ \A t \in 1..Len(good_images(k)) :
                  Cardinality({j \in 1..Len(csv[k]) :
                                  csv[k][j][1] = good_images(k)[t]}) = 1
            /\ \A j \in 1..Len(csv[k]) :
                  /\ csv[k][j][1][1] = k
                  /\ csv[k][j][2] = basename(csv[k][j][1])

\* two directories have their CSV, one of them beside a file that is no image
C6_Witness ==
    \E k1, k2 \in Dirs :
        /\ k1 < k2
        /\ wr[k1] = "ok"
        /\ wr[k2] = "ok"
        /\ Len(csv[k1]) + Len(csv[k2]) < Len(fs[k1]) + Len(fs[k2])

\* ---- C7 ------------------------------------------------------------------
\* C7: a directory without a file of a matching extension never gets a CSV.
C7_NoCsvWithoutImages ==
    \A k \in Dirs : images(k) = <<>> => (wr[k] = "none" /\ csv[k] = <<>>)

\* the walk has gone past a directory without images (which holds a file
\* that is no image) while another directory got its CSV
C7_Witness ==
    /\ export_to_csv
    /\ \E k, k2 \in Dirs :
          /\ images(k) = <<>>
          /\ fs[k] # <<>>
          /\ (d > k \/ pc = "done")
          /\ wr[k2] = "ok"

\* ---- C8 ------------------------------------------------------------------
\* C8: a directory's CSV is written only after all its evaluations have
\* finished: while to_csv runs, and once the file exists, none is pending or
\* running.
C8_JoinBeforeWrite ==
    /\ pc = "to_csv" => all_finished(d)
    /\ \A k \in Dirs : wr[k] # "none" => all_finished(k)

\* to_csv is running for a directory of at least two images
C8_Witness == pc = "to_csv" /\ Len(futures[d]) >= 2

\* ---- C9 ------------------------------------------------------------------
\* C9: directories are processed one after another: only the current
\* directory has pending or running evaluations, every earlier directory has
\* all its evaluations finished and its CSV (if it needs one) written, and no
\* later directory has started.
C9_DirectoriesSequential ==
    \A k \in Dirs :
        /\ in_flight(k) => (k = d /\ pc \in {"submit", "collect", "exit"})
        /\ k < d => /\ all_finished(k)
                    /\ should_export(images(k)) => wr[k] = "ok"
        /\ k > d => /\ \A t \in 1..Len(futures[k]) : futures[k][t] = "new"
                    /\ wr[k] = "none"

\* an evaluation of the second directory runs after the first one's CSV
C9_Witness ==
    /\ d = 2
    /\ wr[1] = "ok"
    /\ \E t \in 1..Len(futures[2]) : futures[2][t] = "running"

\* ---- C10 -----------------------------------------------------------------
\* C10: at most 8 evaluations execute at the same time.
C10_AtMostEightRunning == Cardinality(running) <= 8

\* 8 evaluations are executing and a submitted one waits for a worker
C10_Witness ==
    /\ Cardinality(running) = 8
    /\ \E k \in Dirs : \E t \in 1..Len(futures[k]) : futures[k][t] = "pending"

====
